---- MODULE Spec2Model ----
(***************************************************************************)
(* Model of the Maia wrapper's WebSocket dispatcher (src/server.py), the   *)
(* session store it shares with the desktop GUI (src/tray.py) and the      *)
(* session persistence of src/auth.py.                                     *)
(*                                                                         *)
(* Threads of the program:                                                 *)
(*   - one asyncio event-loop thread that runs every connection handler    *)
(*     (MaiaServer._handle_client); handlers interleave only at their      *)
(*     await points (reading the next frame, sending a reply);             *)
(*   - the GUI's js_api calls (Api.login, Api.logout), which run on        *)
(*     threads of their own and share MaiaApp._session with the handlers.  *)
(* No lock exists anywhere in the program.                                 *)
(*                                                                         *)
(* Three specifications:                                                   *)
(*   Spec        the dispatcher and the session store, with the start-up   *)
(*               over and the server listening;                            *)
(*   SpecEngine  the start-up (src/main.py, MaiaApp._load_and_start,       *)
(*               MaiaApp.toggle_server, MaiaEngine.__init__) and the pure  *)
(*               functions of src/engine.py that predict applies, with no  *)
(*               connection open;                                          *)
(*   SpecAuth    the restoring of the persisted session when the           *)
(*               application object is made (load_session, fetch_plan and  *)
(*               refresh_session of src/auth.py).                          *)
(***************************************************************************)
EXTENDS Integers, Sequences, FiniteSets, TLC

\* ------------------------------------------------------------------ bounds
\* connections that are ever opened
NumConns == 2
\* frames that are ever read, over all connections
MaxMsgs == 2

Conns == 1..NumConns

\* ------------------------------------------------------------- JSON values
\* A key that is not in a dict / a field that is not in a reply.
Absent == "<absent>"
\* Python None (JSON null).
Null == "<null>"

\* dict.get(key, default)
Get(d, key, default) == IF d[key] = Absent THEN default ELSE d[key]

\* Python truthiness of the values that occur here: None, "" are false.
Falsy(v) == v \in {Absent, Null, ""}

\* ---------------------------------------------------------------- sessions
\* The session dict of auth.py: email, access_token, refresh_token, plan
\* (user_id is determined by email and is left out).  NoSession is None.
NoSession ==
    [email |-> Absent, plan |-> Absent, access_token |-> Absent, refresh_token |-> Absent]

\* Mutant of MkSession: the refresh token is not stored.
MkSessionNoRefresh(email, access, refresh, plan) ==
    [email |-> email, plan |-> plan, access_token |-> access, refresh_token |-> ""]

MkSession(email, access, refresh, plan) ==
    [email |-> email, plan |-> plan, access_token |-> access, refresh_token |-> refresh]

Plans == {"free", "premium"}

\* Identity service, GET /auth/v1/user: the user a bearer token belongs to;
\* Absent when the service answers non-200, "" when it answers 200 with a
\* user that has no email.
UserOfToken(tok) ==
    CASE tok = "tokA" -> "a@x"
      [] tok = "tokAnon" -> ""
      [] OTHER -> Absent

\* Credential login (POST /auth/v1/token?grant_type=password) issues tokens.
GuiEmails == {"b@x"}
GuiPlans == {"premium"}
GuiAccessToken == "tokG"
GuiRefreshToken == "rtG"

\* Sessions load_session can have restored when MaiaApp is constructed.
RestoredSessions ==
    {NoSession} \cup {MkSession("a@x", "tokA", "rt", p) : p \in Plans}

\* ------------------------------------------------------------------ frames
FenOk == "rnbqkbnr/pppppppp/8/8/8/8/PPPPPPPP/RNBQKBNR w KQkq - 0 1"
FenBad == "not a fen"
\* a fen field holding a JSON number
FenInt == "<int 5>"

EmptyFrame ==
    [kind |-> "object", type |-> Absent, requestId |-> Absent, fen |-> Absent,
     access_token |-> Absent, refresh_token |-> Absent]

\* The local variable msg of _handle_client before its first assignment.
UnboundMsg == [EmptyFrame EXCEPT !.kind = "unbound"]

PingFrame == [EmptyFrame EXCEPT !.type = "ping"]
GetAuthFrame == [EmptyFrame EXCEPT !.type = "get_auth"]
BogusFrame == [EmptyFrame EXCEPT !.type = "bogus"]
\* a JSON object without a "type" key
NoTypeFrame == [EmptyFrame EXCEPT !.requestId = "r1"]

LoginFrames ==
    {[EmptyFrame EXCEPT !.type = "login_with_token"],
     [EmptyFrame EXCEPT !.type = "login_with_token", !.access_token = ""],
     [EmptyFrame EXCEPT !.type = "login_with_token", !.access_token = "tokA",
                        !.refresh_token = "rt"],
     [EmptyFrame EXCEPT !.type = "login_with_token", !.access_token = "tokA"],
     [EmptyFrame EXCEPT !.type = "login_with_token", !.access_token = "tokAnon",
                        !.refresh_token = "rt"],
     [EmptyFrame EXCEPT !.type = "login_with_token", !.access_token = "tokBad",
                        !.refresh_token = "rt"]}

AnalyzeFrames ==
    {[EmptyFrame EXCEPT !.type = "analyze", !.requestId = r, !.fen = f] :
        r \in {Absent, "r1"}, f \in {Absent, FenOk}}
    \cup {[EmptyFrame EXCEPT !.type = "analyze", !.requestId = "r1", !.fen = f] :
        f \in {"", FenBad, FenInt}}

\* kind "nonobject": valid JSON that is not an object ([1], 5, null, "s");
\* kind "malformed": json.loads raises JSONDecodeError;
\* kind "undecodable": json.loads raises another exception (UnicodeDecodeError
\*   for a binary frame that is not UTF-8, RecursionError for a deeply nested
\*   text frame).
OtherFrames ==
    {[EmptyFrame EXCEPT !.kind = k] : k \in {"nonobject", "malformed", "undecodable"}}

Frames ==
    {PingFrame, GetAuthFrame, BogusFrame, NoTypeFrame} \cup LoginFrames \cup AnalyzeFrames
    \cup OtherFrames

\* ----------------------------------------------------------------- replies
EmptyReply ==
    [type |-> Absent, requestId |-> Absent, message |-> Absent, logged_in |-> Absent,
     email |-> Absent, plan |-> Absent, error |-> Absent, moves |-> Absent,
     win_prob |-> Absent, fen |-> Absent]

\* str(e) of the exceptions that occur
ExcNotObject == "object has no attribute 'get'"
ExcUndecodable == "json.loads raised (not JSONDecodeError)"
ExcBadFen == "invalid fen"
ExcFenType == "'int' object has no attribute 'split'"
ExcInvalidToken == "Invalid or expired token"
ExcNoUserInfo == "Could not retrieve user info"
ExcUnreachable == "requests.get raised"

VARIABLES
    session,    \* MaiaApp._session
    file,       \* contents of SESSION_FILE (NoSession: the file does not exist)
    clients,    \* MaiaServer._clients
    running,    \* the handler that occupies the event-loop thread, 0 if none
    pc,         \* per connection: where its handler is
    raw,        \* per connection: the frame being processed (the loop variable raw)
    msg,        \* per connection: the handler's local variable msg
    reply,      \* per connection: the reply about to be sent
    gate,       \* per connection: the local variable session of _process
    pend,       \* per connection: the local variable session of _handle_login_with_token
    exc,        \* per connection: str(e) of the exception caught for the current frame
    invoked,    \* per connection: MaiaEngine.predict was called for the current frame
    owed,       \* per connection: a frame was read and its reply is not sent yet
    nRecv,      \* frames read so far, over all connections
    endReason,  \* per connection: why the handler ended
    guiLogin,   \* the Api.login call in progress
    guiLogout,  \* the Api.logout call in progress
    env,        \* the files on disk: model.onnx and move_vocab.json
    entry,      \* how the application object is made: by main() or with a model path
    boot,       \* where the start-up is (main, then MaiaApp._load_and_start)
    engine,     \* the MaiaEngine object, once constructed
    app,        \* the fields of MaiaApp that start-up and toggle_server use
    listening,  \* the WebSocket server accepts connections
    predCall,   \* the decoding of predict: its request and its results
    eloCall,    \* the last rating conversion of predict: inputs and results
    mvCall,     \* the last move mirroring of predict: input and results
    auth        \* load_session at start-up: the file, the service's answers, the result

\* the dispatcher and the session store
serverVars ==
    <<session, file, clients, running, pc, raw, msg, reply, gate, pend, exc, invoked,
      owed, nRecv, endReason, guiLogin, guiLogout>>

\* start-up and the engine
engineVars == <<env, entry, boot, engine, app, listening, eloCall, mvCall, predCall>>

\* the restoring of the persisted session when the application object is made
authVars == <<auth>>

vars == <<serverVars, engineVars, authVars>>

connVars == <<pc, raw, msg, reply, gate, pend, exc, invoked, owed, nRecv, endReason>>

GuiIdle == [pc |-> "idle", pend |-> NoSession]

\* ------------------------------------------------ the engine's pure functions
\* Mutant of EloToCategory: a rating of exactly 1100 is still category 0.
EloToCategoryLateStart(elo) ==
    IF elo <= 1100 THEN 0
    ELSE IF elo >= 2000 THEN 10
    ELSE (elo - 1100) \div 100 + 1

\* engine._elo_to_category (Python // on a non-negative left operand)
EloToCategory(elo) ==
    IF elo < 1100 THEN 0
    ELSE IF elo >= 2000 THEN 10
    ELSE (elo - 1100) \div 100 + 1

\* A Python str is a sequence of one-character strings.
DigitChars == <<"0", "1", "2", "3", "4", "5", "6", "7", "8", "9">>

\* int(ch) for a one-character str that is a decimal digit
IntOfChar(ch) == CHOOSE n \in 0..9 : DigitChars[n + 1] = ch

RECURSIVE StrOfNat(_)
StrOfNat(n) ==
    IF n < 10 THEN <<DigitChars[n + 1]>>
    ELSE StrOfNat(n \div 10) \o <<DigitChars[(n % 10) + 1]>>

\* str(n) for an int
StrOfInt(n) == IF n < 0 THEN <<"-">> \o StrOfNat(0 - n) ELSE StrOfNat(n)

\* mirror_sq inside engine._mirror_move
MirrorSq(sq) == <<sq[1]>> \o StrOfInt(9 - IntOfChar(sq[2]))

\* Mutant of MirrorMove: the promotion suffix is dropped.
MirrorMoveDropsPromo(m) ==
    MirrorSq(SubSeq(m, 1, 2)) \o MirrorSq(SubSeq(m, 3, 4))

\* engine._mirror_move
MirrorMove(m) ==
    LET from_sq == SubSeq(m, 1, 2)
        to_sq == SubSeq(m, 3, 4)
        promo == IF Len(m) > 4 THEN SubSeq(m, 5, Len(m)) ELSE <<>>
    IN MirrorSq(from_sq) \o MirrorSq(to_sq) \o promo

\* ratings around the category boundaries that predict is called with
EloMargin == 150
EloBoundaries == {1100 + 100 * k : k \in 0..9}
EloSamples ==
    {b + d : b \in EloBoundaries, d \in {-1, 0}} \cup {-1, 0, 9999, 10000}
EloInputs == ((1100 - EloMargin)..(2000 + EloMargin)) \cup EloSamples

\* UCI moves: two squares and an optional promotion piece
Files == {"a", "b", "c", "d", "e", "f", "g", "h"}
Ranks == {"1", "2", "3", "4", "5", "6", "7", "8"}
Promos == {<<>>, <<"q">>, <<"r">>, <<"b">>, <<"n">>}
Squares == {<<f, r>> : f \in Files, r \in Ranks}
Moves == {a \o b \o p : a \in Squares, b \in Squares, p \in Promos}

NoEloCall == [self |-> 0, oppo |-> 0, self_cat |-> -1, oppo_cat |-> -1]
NoMvCall == [move |-> <<>>, mirrored |-> <<>>, restored |-> <<>>]

\* ------------------------------------------------- predict: the decoder
\* python-chess numbers the squares a1 = 0, b1 = 1, ..., h8 = 63.
FileChars == <<"a", "b", "c", "d", "e", "f", "g", "h">>
SquareIndex(sq) ==
    8 * (IntOfChar(sq[2]) - 1) + (CHOOSE i \in 1..8 : FileChars[i] = sq[1]) - 1

\* chess.Board.legal_moves lists the moves of the pieces from the highest
\* from-square index to the lowest and, for one piece, from the highest
\* to-square index to the lowest.
EnumKey(m) == 64 * SquareIndex(SubSeq(m, 1, 2)) + SquareIndex(SubSeq(m, 3, 4))

RECURSIVE EnumOrder(_)
EnumOrder(S) ==
    IF S = {} THEN <<>>
    ELSE LET m == CHOOSE x \in S : \A y \in S : EnumKey(y) <= EnumKey(x)
         IN <<m>> \o EnumOrder(S \ {m})

\* Moves that the pieces of a first-player-to-move position can have: a
\* bishop on c4 and a knight on g1.
BoardMoves ==
    {<<"c", "4", "d", "5">>, <<"c", "4", "b", "5">>,
     <<"g", "1", "f", "3">>, <<"g", "1", "h", "3">>}

\* chess.Board.mirror(): ranks flipped, colours swapped, turn switched.  A
\* position is its side to move and its legal moves.
MirrorBoard(pos) ==
    [turn |-> IF pos.turn = "white" THEN "black" ELSE "white",
     legal |-> {MirrorMove(m) : m \in pos.legal}]

Positions ==
    LET whites == {[turn |-> "white", legal |-> S] : S \in SUBSET BoardMoves}
    IN whites \cup {MirrorBoard(pos) : pos \in whites}

\* self.all_moves / self.move_to_idx: a loaded vocabulary holds every move of
\* BoardMoves but g1h3 (a coverage gap); move_vocab.json with [] gives none.
AllMoves(all_moves) ==
    IF all_moves = "full" THEN BoardMoves \ {<<"g", "1", "h", "3">>} ELSE {}

\* outputs[0][0], one logit per vocabulary entry.  Logits are multiples of
\* ln 2, so exp(x - max) / sum is the exact fraction 2^x / sum of 2^y; a
\* masked entry (-1e9) has exp(-1e9 - max) = 0.
MaxLogit == 2
Logits == [AllMoves("full") -> 0..MaxLogit]

RECURSIVE SumExp(_, _)
SumExp(logit, S) ==
    IF S = {} THEN 0
    ELSE LET m == CHOOSE x \in S : TRUE
         IN 2^(logit[m]) + SumExp(logit, S \ {m})

\* 10^4, the unit of round(x, 4)
Scale4 == 10000

\* round(num / den, 4) in units of 10^-4: to the nearest, a tie to the even.
Round4(num, den) ==
    LET q == (num * Scale4) \div den
        r == (num * Scale4) % den
    IN IF 2 * r < den THEN q
       ELSE IF 2 * r > den THEN q + 1
       ELSE IF q % 2 = 0 THEN q ELSE q + 1

\* Mutant of Probability: softmax over the logits without the legal mask.
ProbabilityUnmasked(logit, kept, m) ==
    Round4(2^(logit[m]), SumExp(logit, DOMAIN logit))

\* _softmax over the masked logits, then round(float(probs[idx]), 4), for
\* the entries in the set kept of legal moves that are in the vocabulary.
Probability(logit, kept, m) == Round4(2^(logit[m]), SumExp(logit, kept))

\* legal_moves_uci: the legal moves of the true position, as enumerated
LegalMovesUci(pos) == EnumOrder(pos.legal)

\* Mutant of BoardTensor: every board is mirrored, the first player's too.
BoardTensorAlwaysMirrored(pos) == MirrorBoard(pos)

\* Mutant of BoardTensor: the board is encoded as it stands, never mirrored.
BoardTensorUnmirrored(pos) == pos

\* The board that _board_to_tensor encodes: the second player's board is
\* mirrored first, so the mover is always the first player.
BoardTensor(pos) == IF pos.turn = "black" THEN MirrorBoard(pos) ELSE pos

\* _board_to_tensor, plane 12, indexed by rank and file: np.zeros, then
\* tensor[12, :, :] = 1.0 if board.turn == chess.WHITE
MoverPlane(board) ==
    [cell \in (0..7) \X (0..7) |-> IF board.turn = "white" THEN 1 ELSE 0]

\* legal_mirrored: the legal moves as the vocabulary spells them
LegalMirrored(pos) ==
    LET uci == LegalMovesUci(pos)
    IN [i \in 1..Len(uci) |-> IF pos.turn = "black" THEN MirrorMove(uci[i]) ELSE uci[i]]

\* Mutant of OriginalMove: the vocabulary's spelling is reported.
OriginalMoveStaysMirrored(is_black, m_mirrored) == m_mirrored

\* original_move
OriginalMove(is_black, m_mirrored) ==
    IF is_black THEN MirrorMove(m_mirrored) ELSE m_mirrored

\* move_probs before the sort: one entry per legal move of the vocabulary,
\* in the order of the enumeration; a move outside the vocabulary is skipped.
MoveProbs(pos, vocab, logit) ==
    LET InVocab(m) == m \in vocab
        kept == SelectSeq(LegalMirrored(pos), InVocab)
        mask == {kept[i] : i \in 1..Len(kept)}
    IN [i \in 1..Len(kept) |->
          [move |-> OriginalMove(pos.turn = "black", kept[i]),
           probability |-> Probability(logit, mask, kept[i])]]

\* Mutant of SortByProb: entries of equal probability end in reverse order.
RECURSIVE SortByProbTiesReversed(_)
SortByProbTiesReversed(s) ==
    IF Len(s) <= 1 THEN s
    ELSE LET rest == SortByProbTiesReversed(Tail(s))
             k == Cardinality({i \in 1..Len(rest) :
                                 rest[i].probability >= Head(s).probability})
         IN SubSeq(rest, 1, k) \o <<Head(s)>> \o SubSeq(rest, k + 1, Len(rest))

\* move_probs.sort(key=probability, reverse=True): list.sort is stable, and
\* with reverse=True entries of equal key keep their original order.
RECURSIVE SortByProb(_)
SortByProb(s) ==
    IF Len(s) <= 1 THEN s
    ELSE LET rest == SortByProb(Tail(s))
             k == Cardinality({i \in 1..Len(rest) :
                                 rest[i].probability > Head(s).probability})
         IN SubSeq(rest, 1, k) \o <<Head(s)>> \o SubSeq(rest, k + 1, Len(rest))

\* Mutant of Slice: the last entries are taken.
SliceFromEnd(s, n) ==
    IF n >= 0 THEN SubSeq(s, IF n < Len(s) THEN Len(s) - n + 1 ELSE 1, Len(s))
    ELSE SubSeq(s, 1, Len(s) + n)

\* s[:n] for an int n: a negative n counts from the end.
Slice(s, n) ==
    IF n >= 0 THEN SubSeq(s, 1, IF n < Len(s) THEN n ELSE Len(s))
    ELSE SubSeq(s, 1, Len(s) + n)

\* np.clip
Clip(x, lo, hi) == IF x < lo THEN lo ELSE IF x > hi THEN hi ELSE x

\* Mutant of WinProb: the second player's value is not flipped.
WinProbNoFlip(value, is_black) ==
    Round4(Clip(value + 5 * Scale4, 0, 10 * Scale4), 10 * Scale4)

\* win_prob as returned, in units of 10^-4.  value is logits_value in units
\* of 2 * 10^-5, so logits_value / 2 + 0.5 is value + 50000 in units of 10^-5.
WinProb(value, is_black) ==
    LET win_prob_white == Clip(value + 5 * Scale4, 0, 10 * Scale4)
    IN Round4(IF is_black THEN 10 * Scale4 - win_prob_white ELSE win_prob_white,
              10 * Scale4)

\* logits_value of the calls: -3, -1, -0.4, 0, 0.00022, 1 and 1.4
Values == {-150000, -50000, -20000, 0, 11, 50000, 70000}

\* "top_n" of an analyze message: no such key (<<>>) or an int (<<n>>)
TopNs == {<<>>} \cup {<<n>> : n \in {-1, 0, 1, 2, 3, 5}}

\* top_n = msg.get("top_n", 5)
DefaultTopN == 5
TopN(t) == IF t = <<>> THEN DefaultTopN ELSE t[1]

\* MaiaEngine.predict.  With no vocabulary np.where cannot broadcast the
\* empty mask against the logits and raises ValueError.
EnginePredict(all_moves, pos, logit, value, top_n) ==
    LET vocab == AllMoves(all_moves)
        move_probs == SortByProb(MoveProbs(pos, vocab, logit))
    IN IF vocab = {}
       THEN [raised |-> TRUE, move_probs |-> <<>>, moves |-> <<>>, win_prob |-> 0]
       ELSE [raised |-> FALSE, move_probs |-> move_probs,
             moves |-> Slice(move_probs, top_n),
             win_prob |-> WinProb(value, pos.turn = "black")]

NoPredCall ==
    [pos |-> [turn |-> "none", legal |-> {}], top_n |-> <<>>, value |-> 0,
     tensor |-> [turn |-> "none", legal |-> {}],
     mover_plane |-> [cell \in (0..7) \X (0..7) |-> 0],
     res |-> [raised |-> FALSE, move_probs |-> <<>>, moves |-> <<>>, win_prob |-> 0],
     twin_tensor |-> [turn |-> "none", legal |-> {}],
     twin |-> [raised |-> FALSE, move_probs |-> <<>>, moves |-> <<>>, win_prob |-> 0]]

\* ---------------------------------------------------------------- start-up
\* model.onnx: present and loadable, absent, or rejected by onnxruntime;
\* move_vocab.json: a non-empty list, absent, not JSON, or the empty list.
ModelFiles == {"ok", "missing", "corrupt"}
VocabFiles == {"ok", "missing", "unparseable", "empty"}

\* Mutant of Construct: the model file's existence is not checked and a
\* missing model does not stop the construction.
ConstructWithoutModel(e) ==
    IF e.model = "corrupt" THEN "Exception"
    ELSE IF e.vocab = "missing" THEN "FileNotFoundError"
    ELSE IF e.vocab = "unparseable" THEN "Exception"
    ELSE "ok"

\* MaiaEngine.__init__: the exception it raises, "ok" when it returns.
Construct(e) ==
    IF e.model = "missing" THEN "FileNotFoundError"
    ELSE IF e.model = "corrupt" THEN "Exception"
    ELSE IF e.vocab = "missing" THEN "FileNotFoundError"
    ELSE IF e.vocab = "unparseable" THEN "Exception"
    ELSE "ok"

\* _load_move_vocab: what json.load returns
LoadMoveVocab(e) == IF e.vocab = "empty" THEN "empty" ELSE "full"

NoEngine == [constructed |-> FALSE, all_moves |-> "unset"]
BuiltEngine(e) == [constructed |-> TRUE, all_moves |-> LoadMoveVocab(e)]

\* MaiaApp.__init__(model_path, engine, port): engine is "none" (None),
\* "engine" (a MaiaEngine) or "port" (an int).
NewApp(eng) ==
    [engine |-> eng, server |-> FALSE, loop |-> FALSE, is_running |-> FALSE,
     engine_ready |-> eng # "none"]

\* ------------------------------------------------- the persisted session
\* SESSION_FILE when the application starts: absent, unreadable (read_text
\* raises), not JSON, JSON that is not an object, or an object; user_id tells
\* whether the object has the key "user_id".
StoredData ==
    {MkSession(e, a, "rtOld", p) : e \in {"", "a@x"}, a \in {"", "tokOld"}, p \in Plans}
SessionFiles ==
    {[kind |-> k, data |-> NoSession, user_id |-> FALSE] :
        k \in {"absent", "unreadable", "notjson", "nonobject"}}
    \cup {[kind |-> "object", data |-> d, user_id |-> u] : d \in StoredData, u \in BOOLEAN}

\* What the plan lookup (GET /rest/v1/user_settings) does: requests.get
\* raises, a status other than 200, 200 with [], 200 with a body that is not
\* JSON, 200 with a row whose plan is "free", "premium", missing or null.
FailedLookups == {"transport_error", "non200", "empty", "unparseable"}
LookupOutcomes == FailedLookups \cup {"row_free", "row_premium", "row_noplan", "row_null"}

\* What the token refresh (POST /auth/v1/token) does.
RefreshOutcomes == {"transport_error", "non200", "ok"}

\* An exception that leaves a function
Raise == "<raise>"

\* The try block of fetch_plan: it raises, returns a plan, or falls through.
FetchPlanBody(o) ==
    CASE o \in {"transport_error", "unparseable"} -> Raise
      [] o \in {"non200", "empty"} -> "<fall>"
      [] o = "row_premium" -> "premium"
      [] o = "row_null" -> Null
      [] OTHER -> "free"

\* Mutant of FetchPlan: the exception of the try block is not caught.
FetchPlanUncaught(o) ==
    IF FetchPlanBody(o) = "<fall>" THEN "free" ELSE FetchPlanBody(o)

\* fetch_plan: except Exception, then return "free"
FetchPlan(o) ==
    IF FetchPlanBody(o) \in {Raise, "<fall>"} THEN "free" ELSE FetchPlanBody(o)

\* load_session up to the plan lookup: "none" (return None), Raise, or
\* "verify" (the lookup is made).
ReadSessionFile(f) ==
    CASE f.kind = "absent" -> "none"
      [] f.kind \in {"unreadable", "notjson", "nonobject"} -> Raise
      [] Falsy(f.data.access_token) \/ Falsy(f.data.email) -> "none"
      [] ~f.user_id -> Raise
      [] OTHER -> "verify"

\* Mutant of LoadSessionTry: the exception is not caught.
LoadSessionTryUncaught(step) == step

\* load_session: except Exception: return None
LoadSessionTry(step) == IF step = Raise THEN "none" ELSE step

\* new_session of refresh_session
RefreshedSession(old, plan) == MkSession(old.email, "tokNew", "rtNew", plan)

\* auth before load_session runs, for a file and the service's answers
AuthStart(f, lookup, refresh, relookup) ==
    [pc |-> "load", file |-> f, lookup |-> lookup, refresh |-> refresh,
     relookup |-> relookup, plan |-> Absent, raised |-> FALSE,
     result |-> NoSession, session |-> NoSession]

\* No start-up in progress: the application object exists.
AuthParked ==
    auth = [AuthStart([kind |-> "absent", data |-> NoSession, user_id |-> FALSE],
                      "non200", "non200", "non200") EXCEPT !.pc = "running"]

\* The start-up is over and the server is up, as the dispatcher needs it.
EngineParked ==
    /\ env = [model |-> "ok", vocab |-> "ok"]
    /\ entry = "lazy"
    /\ boot = "serving"
    /\ engine = BuiltEngine(env)
    /\ app = [engine |-> "engine", server |-> TRUE, loop |-> TRUE, is_running |-> TRUE,
              engine_ready |-> TRUE]
    /\ listening = TRUE
    /\ eloCall = NoEloCall
    /\ mvCall = NoMvCall
    /\ predCall = NoPredCall

ServerInit ==
    /\ session \in RestoredSessions
    /\ file = session
    /\ clients = {}
    /\ running = 0
    /\ pc = [c \in Conns |-> "init"]
    /\ raw = [c \in Conns |-> UnboundMsg]
    /\ msg = [c \in Conns |-> UnboundMsg]
    /\ reply = [c \in Conns |-> EmptyReply]
    /\ gate = [c \in Conns |-> NoSession]
    /\ pend = [c \in Conns |-> NoSession]
    /\ exc = [c \in Conns |-> Absent]
    /\ invoked = [c \in Conns |-> FALSE]
    /\ owed = [c \in Conns |-> FALSE]
    /\ nRecv = 0
    /\ endReason = [c \in Conns |-> "none"]
    /\ guiLogin = GuiIdle
    /\ guiLogout = "idle"

Init == ServerInit /\ EngineParked /\ AuthParked

\* ------------------------------------------------------- reply construction
\* Mutant of PongReply: the reply has a second field.
PongReplyWithMessage == [EmptyReply EXCEPT !.type = "pong", !.message = "pong"]

PongReply == [EmptyReply EXCEPT !.type = "pong"]

\* session.get("plan", "free")
PlanOf(sess) == Get(sess, "plan", "free")

\* Mutant of HandleGetAuth: the plan is left out of the reply.
HandleGetAuthNoPlan(sess) ==
    IF sess # NoSession
    THEN [EmptyReply EXCEPT !.type = "auth_status", !.logged_in = "true",
                            !.email = Get(sess, "email", "")]
    ELSE [EmptyReply EXCEPT !.type = "auth_status", !.logged_in = "false"]

\* MaiaServer._handle_get_auth
HandleGetAuth(sess) ==
    IF sess # NoSession
    THEN [EmptyReply EXCEPT !.type = "auth_status", !.logged_in = "true",
                            !.email = Get(sess, "email", ""), !.plan = PlanOf(sess)]
    ELSE [EmptyReply EXCEPT !.type = "auth_status", !.logged_in = "false"]

\* Mutant of Gate: the plan tag is not looked at.
GateIgnoresPlan(sess) ==
    IF sess = NoSession THEN "auth_required" ELSE "granted"

\* The gate of _process for an analyze message.
Gate(sess) ==
    IF sess = NoSession THEN "auth_required"
    ELSE IF PlanOf(sess) = "free" THEN "upgrade_required"
    ELSE "granted"

\* Mutant of AuthRequiredReply: the requestId is not echoed.
AuthRequiredReplyNoId(m) ==
    [EmptyReply EXCEPT !.type = "auth_required"]

AuthRequiredReply(m) ==
    [EmptyReply EXCEPT !.type = "auth_required", !.requestId = Get(m, "requestId", Null)]

\* Mutant of UpgradeRequiredReply: the requestId is not echoed.
UpgradeRequiredReplyNoId(m) ==
    [EmptyReply EXCEPT !.type = "upgrade_required"]

UpgradeRequiredReply(m) ==
    [EmptyReply EXCEPT !.type = "upgrade_required", !.requestId = Get(m, "requestId", Null)]

\* f"Unknown message type: {msg_type}"
UnknownTypeMessage(t) ==
    CASE t = Absent -> "Unknown message type: None"
      [] OTHER -> "Unknown message type: bogus"

\* Mutant of UnknownTypeReply: a message without type is answered like a ping.
UnknownTypeReplyPongs(m) ==
    IF m.type = Absent THEN [EmptyReply EXCEPT !.type = "pong"]
    ELSE [EmptyReply EXCEPT !.type = "error", !.message = UnknownTypeMessage(m.type)]

UnknownTypeReply(m) ==
    [EmptyReply EXCEPT !.type = "error", !.message = UnknownTypeMessage(m.type)]

MissingFenReply(m) ==
    [EmptyReply EXCEPT !.type = "error", !.message = "Missing 'fen' field"]

InvalidJsonReply ==
    [EmptyReply EXCEPT !.type = "error", !.message = "Invalid JSON"]

\* The reply built in the except Exception branch of _handle_client.
ErrorReply(e, m) ==
    [EmptyReply EXCEPT !.type = "error", !.message = e,
                       !.requestId = Get(m, "requestId", Null)]

\* MaiaEngine.predict seen from the dispatcher: it raises on a FEN that
\* chess.Board rejects and otherwise returns moves, win_prob and the fen.
PredictRaises(fen) == fen = FenBad

Predict(fen) ==
    [moves |-> "moves(startpos)", win_prob |-> "win_prob(startpos)", fen |-> fen]

AnalysisReply(m, result) ==
    [EmptyReply EXCEPT !.type = "analysis_result",
                       !.requestId = Get(m, "requestId", "?"),
                       !.moves = result.moves, !.win_prob = result.win_prob,
                       !.fen = result.fen]

LoginFailReply(e) ==
    [EmptyReply EXCEPT !.type = "auth_status", !.logged_in = "false", !.error = e]

LoginOkReply(sess) ==
    [EmptyReply EXCEPT !.type = "auth_status", !.logged_in = "true",
                       !.email = sess.email, !.plan = sess.plan]

\* ------------------------------------------------ one frame, up to a block
\* What the handler does with a frame before it next blocks or awaits:
\*   to = "send"        a reply is ready
\*   to = "raise"       an exception reached the except Exception branch
\*   to = "login_http"  chessr_auth.login_with_token was entered
\*   to = "predict"     MaiaEngine.predict was entered
Out(to, r, e) == [to |-> to, reply |-> r, exc |-> e]

\* MaiaServer._handle_analyze up to the call of engine.predict
HandleAnalyze(m) ==
    IF Falsy(Get(m, "fen", Null)) THEN Out("send", MissingFenReply(m), Absent)
    ELSE IF m.fen = FenInt THEN Out("raise", EmptyReply, ExcFenType)
    ELSE Out("predict", EmptyReply, Absent)

\* MaiaServer._handle_login_with_token up to the call of login_with_token
HandleLoginWithToken(m) ==
    IF Falsy(Get(m, "access_token", ""))
    THEN Out("send", LoginFailReply("Missing token"), Absent)
    ELSE Out("login_http", EmptyReply, Absent)

\* MaiaServer._process
Process(m, sess) ==
    IF m.kind # "object" THEN Out("raise", EmptyReply, ExcNotObject)
    ELSE CASE m.type = "ping" -> Out("send", PongReply, Absent)
           [] m.type = "get_auth" -> Out("send", HandleGetAuth(sess), Absent)
           [] m.type = "login_with_token" -> HandleLoginWithToken(m)
           [] m.type = "analyze" ->
                CASE Gate(sess) = "auth_required" ->
                        Out("send", AuthRequiredReply(m), Absent)
                  [] Gate(sess) = "upgrade_required" ->
                        Out("send", UpgradeRequiredReply(m), Absent)
                  [] OTHER -> HandleAnalyze(m)
           [] OTHER -> Out("send", UnknownTypeReply(m), Absent)

\* json.loads(raw): the value bound to msg, when it returns.
Parses(f) == f.kind \in {"object", "nonobject"}

\* The except Exception branch: it evaluates msg.get("requestId"), which
\* itself raises when msg is unbound or is not a dict.
ExceptBranchRaises(m) == m.kind # "object"

\* --------------------------------------------------- the connection handler
\* The handler's locals that die when a frame's processing is over.
ClearLocals(c) ==
    /\ reply' = [reply EXCEPT ![c] = EmptyReply]
    /\ gate' = [gate EXCEPT ![c] = NoSession]
    /\ pend' = [pend EXCEPT ![c] = NoSession]
    /\ exc' = [exc EXCEPT ![c] = Absent]
    /\ invoked' = [invoked EXCEPT ![c] = FALSE]

\* Mutant of EndHandler: the connection stays in _clients.
EndHandlerKeepsClient(c, why) ==
    /\ pc' = [pc EXCEPT ![c] = "ended"]
    /\ endReason' = [endReason EXCEPT ![c] = why]
    /\ clients' = clients
    /\ msg' = [msg EXCEPT ![c] = UnboundMsg]
    /\ running' = 0
    /\ ClearLocals(c)

\* The handler leaves _handle_client: the finally clause discards the
\* connection from _clients.
EndHandler(c, why) ==
    /\ pc' = [pc EXCEPT ![c] = "ended"]
    /\ endReason' = [endReason EXCEPT ![c] = why]
    /\ clients' = clients \ {c}
    /\ msg' = [msg EXCEPT ![c] = UnboundMsg]
    /\ running' = 0
    /\ ClearLocals(c)

\* An exception e reached the except Exception branch while frame f is
\* processed, msg is m and the session read by the gate (if any) is g.
Caught(c, e, f, m, g) ==
    /\ raw' = [raw EXCEPT ![c] = f]
    /\ IF ExceptBranchRaises(m)
       THEN EndHandler(c, "crash")
       ELSE /\ pc' = [pc EXCEPT ![c] = "send"]
            /\ reply' = [reply EXCEPT ![c] = ErrorReply(e, m)]
            /\ exc' = [exc EXCEPT ![c] = e]
            /\ msg' = [msg EXCEPT ![c] = m]
            /\ gate' = [gate EXCEPT ![c] = g]
            /\ running' = 0
            /\ UNCHANGED <<clients, endReason, pend, invoked>>

\* websockets.serve starts _handle_client for a new connection.  Connections
\* are numbered in the order in which they are opened.
Connect(c) ==
    /\ UNCHANGED <<engineVars, auth>>
    /\ pc[c] = "init"
    /\ \A d \in Conns : d < c => pc[d] # "init"
    /\ running = 0
    /\ clients' = clients \cup {c}
    /\ pc' = [pc EXCEPT ![c] = "recv"]
    /\ UNCHANGED <<session, file, running, raw, msg, reply, gate, pend, exc, invoked,
                   owed, nRecv, endReason, guiLogin, guiLogout>>

\* One iteration of "async for raw in websocket" from the arrival of frame f
\* to the handler's next blocking call or await.
Receive(c, f) ==
    /\ UNCHANGED <<engineVars, auth>>
    /\ pc[c] = "recv"
    /\ running = 0
    /\ nRecv < MaxMsgs
    /\ nRecv' = nRecv + 1
    /\ owed' = [owed EXCEPT ![c] = TRUE]
    /\ UNCHANGED <<session, file, guiLogin, guiLogout>>
    /\ IF f.kind = "malformed"
       THEN /\ pc' = [pc EXCEPT ![c] = "send"]
            /\ raw' = [raw EXCEPT ![c] = f]
            /\ reply' = [reply EXCEPT ![c] = InvalidJsonReply]
            /\ UNCHANGED <<clients, running, msg, gate, pend, exc, invoked, endReason>>
       ELSE IF ~Parses(f)
       THEN Caught(c, ExcUndecodable, f, msg[c], NoSession)
       ELSE LET out == Process(f, session)
                g == IF f.kind = "object" /\ f.type = "analyze" THEN session
                     ELSE NoSession
            IN
            CASE out.to = "raise" -> Caught(c, out.exc, f, f, g)
              [] out.to = "send" ->
                    /\ pc' = [pc EXCEPT ![c] = "send"]
                    /\ raw' = [raw EXCEPT ![c] = f]
                    /\ msg' = [msg EXCEPT ![c] = f]
                    /\ reply' = [reply EXCEPT ![c] = out.reply]
                    /\ gate' = [gate EXCEPT ![c] = g]
                    /\ UNCHANGED <<clients, running, pend, exc, invoked, endReason>>
              [] out.to = "login_http" ->
                    /\ pc' = [pc EXCEPT ![c] = "login_http"]
                    /\ raw' = [raw EXCEPT ![c] = f]
                    /\ msg' = [msg EXCEPT ![c] = f]
                    /\ running' = c
                    /\ UNCHANGED <<clients, reply, gate, pend, exc, invoked, endReason>>
              [] out.to = "predict" ->
                    /\ pc' = [pc EXCEPT ![c] = "predict"]
                    /\ raw' = [raw EXCEPT ![c] = f]
                    /\ msg' = [msg EXCEPT ![c] = f]
                    /\ gate' = [gate EXCEPT ![c] = g]
                    /\ invoked' = [invoked EXCEPT ![c] = TRUE]
                    /\ running' = c
                    /\ UNCHANGED <<clients, reply, pend, exc, endReason>>

\* Mutant of PredictDone: a served analysis ends the session.
PredictDoneDropsSession(c) ==
    /\ UNCHANGED <<engineVars, auth>>
    /\ pc[c] = "predict"
    /\ running = c
    /\ UNCHANGED <<file, guiLogin, guiLogout, owed, nRecv>>
    /\ IF PredictRaises(msg[c].fen)
       THEN /\ Caught(c, ExcBadFen, raw[c], msg[c], gate[c])
            /\ UNCHANGED session
       ELSE /\ pc' = [pc EXCEPT ![c] = "send"]
            /\ reply' = [reply EXCEPT ![c] = AnalysisReply(msg[c], Predict(msg[c].fen))]
            /\ running' = 0
            /\ session' = NoSession
            /\ UNCHANGED <<clients, raw, msg, gate, pend, exc, invoked, endReason>>

\* engine.predict returns or raises; _handle_analyze builds the reply.
PredictDone(c) ==
    /\ UNCHANGED <<engineVars, auth>>
    /\ pc[c] = "predict"
    /\ running = c
    /\ UNCHANGED <<session, file, guiLogin, guiLogout, owed, nRecv>>
    /\ IF PredictRaises(msg[c].fen)
       THEN Caught(c, ExcBadFen, raw[c], msg[c], gate[c])
       ELSE /\ pc' = [pc EXCEPT ![c] = "send"]
            /\ reply' = [reply EXCEPT ![c] = AnalysisReply(msg[c], Predict(msg[c].fen))]
            /\ running' = 0
            /\ UNCHANGED <<clients, raw, msg, gate, pend, exc, invoked, endReason>>

\* chessr_auth.login_with_token: GET /auth/v1/user, then fetch_plan.  The
\* identity service may be unreachable (reachable = FALSE); fetch_plan
\* returns some plan tag ("free" on any failure).
LoginVerify(c, reachable, plan) ==
    /\ UNCHANGED <<engineVars, auth>>
    /\ pc[c] = "login_http"
    /\ running = c
    /\ UNCHANGED <<session, file, guiLogin, guiLogout, owed, nRecv, clients, raw,
                   msg, gate, invoked, endReason>>
    /\ LET tok == msg[c].access_token
           user == UserOfToken(tok)
       IN IF reachable /\ ~Falsy(user)
          THEN /\ pend' = [pend EXCEPT ![c] =
                             MkSession(user, tok, Get(msg[c], "refresh_token", ""), plan)]
               /\ pc' = [pc EXCEPT ![c] = "login_save"]
               /\ UNCHANGED <<running, reply, exc>>
          ELSE /\ pc' = [pc EXCEPT ![c] = "send"]
               /\ reply' = [reply EXCEPT ![c] = LoginFailReply(
                                IF ~reachable THEN ExcUnreachable
                                ELSE IF user = Absent THEN ExcInvalidToken
                                ELSE ExcNoUserInfo)]
               /\ running' = 0
               /\ UNCHANGED <<pend, exc>>

\* save_session(session) at the end of chessr_auth.login_with_token
LoginSave(c) ==
    /\ UNCHANGED <<engineVars, auth>>
    /\ pc[c] = "login_save"
    /\ running = c
    /\ file' = pend[c]
    /\ pc' = [pc EXCEPT ![c] = "login_set"]
    /\ UNCHANGED <<session, clients, running, raw, msg, reply, gate, pend, exc,
                   invoked, owed, nRecv, endReason, guiLogin, guiLogout>>

\* self._set_session(session) and the reply of _handle_login_with_token
LoginSet(c) ==
    /\ UNCHANGED <<engineVars, auth>>
    /\ pc[c] = "login_set"
    /\ running = c
    /\ session' = pend[c]
    /\ reply' = [reply EXCEPT ![c] = LoginOkReply(pend[c])]
    /\ pc' = [pc EXCEPT ![c] = "send"]
    /\ running' = 0
    /\ UNCHANGED <<file, clients, raw, msg, gate, pend, exc, invoked, owed, nRecv,
                   endReason, guiLogin, guiLogout>>

\* What a later iteration can still read of the msg of an earlier one: the
\* except Exception branch reads msg.get("requestId") and nothing else.
Stale(m) == [EmptyFrame EXCEPT !.kind = m.kind, !.requestId = m.requestId]

\* await websocket.send(json.dumps(response)) completes.
Send(c) ==
    /\ UNCHANGED <<engineVars, auth>>
    /\ pc[c] = "send"
    /\ running = 0
    /\ owed' = [owed EXCEPT ![c] = FALSE]
    /\ pc' = [pc EXCEPT ![c] = "recv"]
    /\ msg' = [msg EXCEPT ![c] = Stale(@)]
    /\ raw' = [raw EXCEPT ![c] = UnboundMsg]
    /\ ClearLocals(c)
    /\ UNCHANGED <<session, file, clients, running, nRecv, endReason, guiLogin,
                   guiLogout>>

\* The peer closes the connection (or the transport fails) while the handler
\* awaits a frame or a send.
Disconnect(c) ==
    /\ UNCHANGED <<engineVars, auth>>
    /\ pc[c] \in {"recv", "send"}
    /\ running = 0
    /\ EndHandler(c, "disconnect")
    /\ raw' = [raw EXCEPT ![c] = UnboundMsg]
    /\ owed' = [owed EXCEPT ![c] = FALSE]
    /\ UNCHANGED <<session, file, nRecv, guiLogin, guiLogout>>

\* ------------------------------------------------------------ the GUI calls
\* Api.login: chessr_auth.login succeeds (it has saved the session to disk
\* before it returns).  A failed login returns an error and changes nothing.
ApiLoginCall(email, plan) ==
    /\ UNCHANGED <<engineVars, auth>>
    /\ guiLogin.pc = "idle"
    /\ LET s == MkSession(email, GuiAccessToken, GuiRefreshToken, plan)
       IN /\ file' = s
          /\ guiLogin' = [pc |-> "saved", pend |-> s]
    /\ UNCHANGED <<session, clients, running, connVars, guiLogout>>

\* Api.login: self._app._session = session
ApiLoginSet ==
    /\ UNCHANGED <<engineVars, auth>>
    /\ guiLogin.pc = "saved"
    /\ session' = guiLogin.pend
    /\ guiLogin' = GuiIdle
    /\ UNCHANGED <<file, clients, running, connVars, guiLogout>>

\* Api.logout: chessr_auth.logout() unlinks the session file
ApiLogoutCall ==
    /\ UNCHANGED <<engineVars, auth>>
    /\ guiLogout = "idle"
    /\ file' = NoSession
    /\ guiLogout' = "unlinked"
    /\ UNCHANGED <<session, clients, running, connVars, guiLogin>>

\* Mutant of ApiLogoutSet: the session in memory is not cleared.
ApiLogoutKeepsSession ==
    /\ UNCHANGED <<engineVars, auth>>
    /\ guiLogout = "unlinked"
    /\ guiLogout' = "idle"
    /\ UNCHANGED <<session, file, clients, running, connVars, guiLogin>>

\* Api.logout: self._app._session = None
ApiLogoutSet ==
    /\ UNCHANGED <<engineVars, auth>>
    /\ guiLogout = "unlinked"
    /\ session' = NoSession
    /\ guiLogout' = "idle"
    /\ UNCHANGED <<file, clients, running, connVars, guiLogin>>

Next ==
    \/ \E c \in Conns : Connect(c)
    \/ \E c \in Conns, f \in Frames : Receive(c, f)
    \/ \E c \in Conns : PredictDone(c)
    \/ \E c \in Conns, reachable \in BOOLEAN, plan \in Plans : LoginVerify(c, reachable, plan)
    \/ \E c \in Conns : LoginSave(c)
    \/ \E c \in Conns : LoginSet(c)
    \/ \E c \in Conns : Send(c)
    \/ \E c \in Conns : Disconnect(c)
    \/ \E email \in GuiEmails, plan \in GuiPlans : ApiLoginCall(email, plan)
    \/ ApiLoginSet
    \/ ApiLogoutCall
    \/ ApiLogoutSet

Spec == Init /\ [][Next]_vars

\* ================================================== start-up and the engine
\* No connection is open: the dispatcher's variables at rest.
ServerParked ==
    /\ ServerInit
    /\ session = NoSession

Entries == {"main", "lazy"}

\* main() is about to construct the engine, or a MaiaApp made with a model
\* path (and no engine) has started its _load_and_start thread.
InitEngine ==
    /\ ServerParked
    /\ env \in [model : ModelFiles, vocab : VocabFiles]
    /\ entry \in Entries
    /\ boot = (IF entry = "main" THEN "main" ELSE "run")
    /\ engine = NoEngine
    /\ app = NewApp("none")
    /\ listening = FALSE
    /\ eloCall = NoEloCall
    /\ mvCall = NoMvCall
    /\ predCall = NoPredCall
    /\ AuthParked

\* main.py: engine = MaiaEngine(model_path).  FileNotFoundError is caught and
\* ends the process with sys.exit(1); any other exception is not caught and
\* ends it as well.
MainConstruct ==
    /\ boot = "main"
    /\ IF Construct(env) = "ok"
       THEN /\ engine' = BuiltEngine(env)
            /\ boot' = "tray"
       ELSE /\ boot' = "exited"
            /\ UNCHANGED engine
    /\ UNCHANGED <<serverVars, auth, env, entry, app, listening, eloCall, mvCall, predCall>>

\* main.py: tray = MaiaTray(engine, port); tray.run().  The two positional
\* arguments bind to the parameters model_path and engine of
\* MaiaApp.__init__, so the app's engine field is the port number.
MainTray ==
    /\ boot = "tray"
    /\ app' = NewApp("port")
    /\ boot' = "run"
    /\ UNCHANGED <<serverVars, auth, env, entry, engine, listening, eloCall, mvCall, predCall>>

\* MaiaApp._load_and_start up to self._engine_ready = True: the engine is
\* constructed when the app has none, then the MaiaServer object is made.
LoadAndStart ==
    /\ boot = "run"
    /\ IF app.engine = "none" /\ Construct(env) # "ok"
       THEN /\ boot' = "load_failed"
            /\ UNCHANGED <<engine, app>>
       ELSE /\ engine' = (IF app.engine = "none" THEN BuiltEngine(env) ELSE engine)
            /\ app' = [app EXCEPT !.engine = (IF @ = "none" THEN "engine" ELSE @),
                                  !.server = TRUE, !.engine_ready = TRUE]
            /\ boot' = "start"
    /\ UNCHANGED <<serverVars, auth, env, entry, listening, eloCall, mvCall, predCall>>

\* MaiaApp._load_and_start: the event loop is made and runs server.start().
StartServer ==
    /\ boot = "start"
    /\ app' = [app EXCEPT !.loop = TRUE]
    /\ listening' = TRUE
    /\ boot' = "mark"
    /\ UNCHANGED <<serverVars, auth, env, entry, engine, eloCall, mvCall, predCall>>

\* MaiaApp._load_and_start: self._is_running = True; run_forever()
MarkRunning ==
    /\ boot = "mark"
    /\ app' = [app EXCEPT !.is_running = TRUE]
    /\ boot' = "serving"
    /\ UNCHANGED <<serverVars, auth, env, entry, engine, listening, eloCall, mvCall, predCall>>

\* MaiaApp.toggle_server, called from the window once the app runs.
ToggleServer ==
    /\ boot \in {"run", "start", "mark", "serving", "load_failed"}
    /\ IF ~app.server \/ ~app.loop
       THEN UNCHANGED <<app, listening>>
       ELSE /\ listening' = ~app.is_running
            /\ app' = [app EXCEPT !.is_running = ~@]
    /\ UNCHANGED <<serverVars, auth, env, entry, boot, engine, eloCall, mvCall, predCall>>

\* A request reaches MaiaEngine.predict on the serving engine; predict runs
\* on the event-loop thread, one call at a time.
PredictRuns ==
    /\ boot = "serving"
    /\ listening
    /\ app.engine = "engine"
    /\ engine.constructed
    /\ eloCall = NoEloCall
    /\ mvCall = NoMvCall
    /\ predCall = NoPredCall

\* predict: the two rating conversions
EloCall ==
    /\ PredictRuns
    /\ \E es \in EloInputs, eo \in EloSamples :
            eloCall' = [self |-> es, oppo |-> eo, self_cat |-> EloToCategory(es),
                        oppo_cat |-> EloToCategory(eo)]
    /\ UNCHANGED <<serverVars, auth, env, entry, boot, engine, app, listening, mvCall, predCall>>

\* predict for black to move: a legal move is mirrored for the model and the
\* mirrored move is mirrored back for the reply.
MirrorCall ==
    /\ PredictRuns
    /\ \E m \in Moves :
            mvCall' = [move |-> m, mirrored |-> MirrorMove(m),
                       restored |-> MirrorMove(MirrorMove(m))]
    /\ UNCHANGED <<serverVars, auth, env, entry, boot, engine, app, listening, eloCall, predCall>>

\* _handle_analyze reads top_n and calls predict, which decodes the model's
\* outputs for the position.  The model is a function of its inputs: the
\* record also holds what the same call gives for the mirrored, colour-swapped
\* position, whose outputs are the same ones when its tensor is the same one.
PredictCall ==
    /\ PredictRuns
    /\ \E pos \in Positions, logit \in Logits, value \in Values, t \in TopNs :
            LET twin_pos == MirrorBoard(pos)
                same == BoardTensor(twin_pos) = BoardTensor(pos)
                twin_logit == IF same THEN logit
                              ELSE [m \in DOMAIN logit |-> MaxLogit - logit[m]]
                twin_value == IF same THEN value ELSE 0 - value
            IN predCall' =
                 [pos |-> pos, top_n |-> t, value |-> value,
                  tensor |-> BoardTensor(pos),
                  mover_plane |-> MoverPlane(BoardTensor(pos)),
                  res |-> EnginePredict(engine.all_moves, pos, logit, value, TopN(t)),
                  twin_tensor |-> BoardTensor(twin_pos),
                  twin |-> EnginePredict(engine.all_moves, twin_pos, twin_logit,
                                         twin_value, TopN(t))]
    /\ UNCHANGED <<serverVars, auth, env, entry, boot, engine, app, listening, eloCall, mvCall>>

\* predict returns: its locals are gone.
PredictReturns ==
    /\ eloCall # NoEloCall \/ mvCall # NoMvCall \/ predCall # NoPredCall
    /\ eloCall' = NoEloCall
    /\ mvCall' = NoMvCall
    /\ predCall' = NoPredCall
    /\ UNCHANGED <<serverVars, auth, env, entry, boot, engine, app, listening>>

NextEngine ==
    \/ MainConstruct
    \/ MainTray
    \/ LoadAndStart
    \/ StartServer
    \/ MarkRunning
    \/ ToggleServer
    \/ EloCall
    \/ MirrorCall
    \/ PredictCall
    \/ PredictReturns

SpecEngine == InitEngine /\ [][NextEngine]_vars

\* ---------------------------------------------- SpecAuth: load_session
InitAuth ==
    /\ ServerParked
    /\ EngineParked
    /\ \E f \in SessionFiles, lookup \in LookupOutcomes, refresh \in RefreshOutcomes,
          relookup \in {"non200", "row_premium"} :
            auth = AuthStart(f, lookup, refresh, relookup)

\* load_session returns (result) or raises; its locals are gone.
Returned(a, step, result) ==
    [a EXCEPT !.pc = "done", !.raised = (step = Raise), !.result = result]

\* load_session: the file is read and parsed, the token and email are tested.
LoadSessionRead ==
    /\ auth.pc = "load"
    /\ LET step == LoadSessionTry(ReadSessionFile(auth.file))
       IN auth' = IF step = "verify" THEN [auth EXCEPT !.pc = "verify"]
                  ELSE Returned(auth, step, NoSession)
    /\ UNCHANGED <<serverVars, engineVars>>

\* load_session: plan = fetch_plan(...); if plan: the plan is stored, the
\* session is saved and returned.
LoadSessionVerify ==
    /\ auth.pc = "verify"
    /\ LET plan == FetchPlan(auth.lookup)
           data == [auth.file.data EXCEPT !.plan = plan]
       IN auth' =
            IF plan = Raise
            THEN [Returned(auth, LoadSessionTry(Raise), NoSession) EXCEPT !.plan = plan]
            ELSE IF ~Falsy(plan)
            THEN [Returned(auth, "return", data) EXCEPT
                     !.plan = plan, !.file = [@ EXCEPT !.data = data]]
            ELSE [auth EXCEPT !.pc = "refresh", !.plan = plan]
    /\ UNCHANGED <<serverVars, engineVars>>

\* load_session: refreshed = refresh_session(data); a refreshed session is
\* saved and returned, otherwise logout() deletes the file and None is
\* returned.
LoadSessionRefresh ==
    /\ auth.pc = "refresh"
    /\ LET plan == FetchPlan(auth.relookup)
           new_session == RefreshedSession(auth.file.data, plan)
       IN auth' =
            IF auth.refresh # "ok"
            THEN [Returned(auth, "return", NoSession) EXCEPT
                     !.file = [kind |-> "absent", data |-> NoSession, user_id |-> FALSE]]
            ELSE IF plan = Raise
            THEN [Returned(auth, "return", NoSession) EXCEPT !.plan = plan,
                     !.file = [kind |-> "absent", data |-> NoSession, user_id |-> FALSE]]
            ELSE [Returned(auth, "return", new_session) EXCEPT
                     !.plan = plan, !.file = [@ EXCEPT !.data = new_session]]
    /\ UNCHANGED <<serverVars, engineVars>>

\* MaiaApp.__init__: self._session = chessr_auth.load_session(); an exception
\* would leave the constructor and end the start-up.
AppConstructed ==
    /\ auth.pc = "done"
    /\ auth' = IF auth.raised THEN [auth EXCEPT !.pc = "crashed"]
               ELSE [auth EXCEPT !.pc = "running", !.session = auth.result]
    /\ UNCHANGED <<serverVars, engineVars>>

NextAuth ==
    \/ LoadSessionRead
    \/ LoadSessionVerify
    \/ LoadSessionRefresh
    \/ AppConstructed

SpecAuth == InitAuth /\ [][NextAuth]_vars

\* =================================================================== claims
\* The frame a handler is processing is an analyze message (past the gate's
\* read of the session).
AtAnalyze(c) ==
    /\ pc[c] \in {"predict", "send"}
    /\ raw[c].kind = "object"
    /\ raw[c].type = "analyze"

\* C1: MaiaEngine.predict is invoked only while an analyze message is
\* processed whose gate check read a session with a plan tag other than
\* "free"; the session read is the one shared session.
C1_PredictOnlyWhenPaid ==
    \A c \in Conns :
        (invoked[c] \/ pc[c] = "predict") =>
            /\ AtAnalyze(c)
            /\ gate[c] # NoSession
            /\ PlanOf(gate[c]) # "free"

\* C1 witness: predict runs on a connection for a session that the GUI's
\* login installed, while another connection is open as well.
C1_Witness ==
    \E c, d \in Conns :
        /\ c # d
        /\ pc[c] = "predict"
        /\ gate[c].access_token = GuiAccessToken
        /\ pc[d] = "recv"

\* C2: an analyze message processed while no session is held is answered
\* with auth_required carrying the request's requestId (null when the request
\* has none) and nothing else, and predict is not invoked, whatever its fen.
C2_AnonymousAnalyze ==
    \A c \in Conns :
        (AtAnalyze(c) /\ gate[c] = NoSession) =>
            /\ pc[c] = "send"
            /\ ~invoked[c]
            /\ reply[c] = [EmptyReply EXCEPT !.type = "auth_required",
                                             !.requestId = IF raw[c].requestId = Absent
                                                           THEN Null
                                                           ELSE raw[c].requestId]

\* C2 witness: an analyze message without fen and without requestId was
\* denied while Anonymous.
C2_Witness ==
    \E c \in Conns :
        /\ AtAnalyze(c)
        /\ gate[c] = NoSession
        /\ raw[c].fen = Absent
        /\ raw[c].requestId = Absent
        /\ reply[c].type = "auth_required"

\* C3: an analyze message processed while a session is held whose plan is
\* "free" (or absent) is answered with upgrade_required carrying the
\* request's requestId, and predict is not invoked.
C3_FreeAnalyze ==
    \A c \in Conns :
        (AtAnalyze(c) /\ gate[c] # NoSession /\ Get(gate[c], "plan", "free") = "free") =>
            /\ pc[c] = "send"
            /\ ~invoked[c]
            /\ reply[c].type = "upgrade_required"
            /\ reply[c].requestId = (IF raw[c].requestId = Absent THEN Null
                                     ELSE raw[c].requestId)

\* C3 witness: an analyze message with a valid fen and a requestId was
\* denied while a free session was held.
C3_Witness ==
    \E c \in Conns :
        /\ AtAnalyze(c)
        /\ gate[c] # NoSession
        /\ gate[c].plan = "free"
        /\ raw[c].fen = FenOk
        /\ reply[c].requestId = "r1"

\* C4 (as claimed): a text frame that parses and whose reply computation
\* raises gets one error reply with the failure's description and the
\* message's requestId, and the handler never ends because of a message.
C4_ErrorReplyForEveryRaise ==
    \A c \in Conns :
        /\ ~(endReason[c] = "crash" /\ Parses(raw[c]))
        /\ (pc[c] = "send" /\ exc[c] # Absent /\ Parses(raw[c])) =>
                reply[c] = [EmptyReply EXCEPT !.type = "error", !.message = exc[c],
                                              !.requestId = Get(raw[c], "requestId", Null)]

\* C5 (as claimed): a frame that json.loads cannot parse gets an error reply
\* with a message and without a requestId field, and the handler goes on.
C5_UnparseableNoRequestId ==
    \A c \in Conns :
        /\ ~(endReason[c] = "crash" /\ ~Parses(raw[c]))
        /\ (pc[c] = "send" /\ raw[c].kind \in {"malformed", "undecodable"}) =>
                /\ reply[c].type = "error"
                /\ reply[c].message # Absent
                /\ reply[c].requestId = Absent
                /\ ~invoked[c]

\* C6 (as claimed): an analyze message that passed the gate and has no (or
\* an empty) fen gets an error reply that echoes its requestId when it has
\* one, and predict is not invoked.
C6_MissingFenEchoesRequestId ==
    \A c \in Conns :
        (pc[c] = "send" /\ AtAnalyze(c) /\ Gate(gate[c]) = "granted"
            /\ Falsy(Get(raw[c], "fen", Null))) =>
                /\ reply[c].type = "error"
                /\ ~invoked[c]
                /\ (raw[c].requestId # Absent => reply[c].requestId = raw[c].requestId)

\* C7 (as claimed): an analysis_result carries the engine result's moves,
\* win_prob and fen, and its requestId is the request's requestId value, the
\* value a denial of the same request echoes.
C7_ResultEchoesRequestId ==
    \A c \in Conns :
        (pc[c] = "send" /\ reply[c].type = "analysis_result") =>
            /\ reply[c].moves = Predict(raw[c].fen).moves
            /\ reply[c].win_prob = Predict(raw[c].fen).win_prob
            /\ reply[c].fen = raw[c].fen
            /\ reply[c].requestId = AuthRequiredReply(raw[c]).requestId

\* C8 (as claimed): on a connection every frame read has got its reply
\* before the next is read, and no frame is left without one unless the
\* transport went away.
C8_OneReplyPerMessage ==
    \A c \in Conns :
        (pc[c] = "recv" \/ (pc[c] = "ended" /\ endReason[c] = "crash")) =>
            ~owed[c]

\* No login or logout is in progress anywhere.
Quiescent ==
    /\ guiLogin.pc = "idle"
    /\ guiLogout = "idle"
    /\ \A c \in Conns : pc[c] \notin {"login_http", "login_save", "login_set"}

\* C9 (as claimed): once no login or logout is in progress, the session in
\* memory is present exactly when the persisted record is, and both name the
\* same identity and plan.
C9_SessionMatchesFile ==
    Quiescent =>
        /\ (session = NoSession) <=> (file = NoSession)
        /\ session.email = file.email
        /\ session.plan = file.plan

\* C10 (as claimed): while predict or a token login is in progress for one
\* connection, a ping arriving on another connection that awaits a frame is
\* answered without waiting for it.
C10_PingNotBlocked ==
    \A c, d \in Conns :
        (c # d /\ pc[c] \in {"predict", "login_http", "login_save", "login_set"}
            /\ pc[d] = "recv" /\ nRecv < MaxMsgs) =>
                ENABLED Receive(d, PingFrame)

\* The handler of c takes a step while it processes a frame of type t.
HandlerStep(c, t) ==
    /\ pc'[c] # pc[c]
    /\ raw'[c].kind = "object"
    /\ raw'[c].type = t

\* C11: a login_with_token message changes the session exactly when the
\* verification succeeds.  With a missing or empty access_token, a rejected
\* token, an unreachable service or a user without email the reply is
\* auth_status with logged_in false and an error text, and no step of the
\* handler changes the session; on success the session becomes the verified
\* identity with the supplied tokens and the fetched plan, and the reply is
\* auth_status with logged_in true and that email and plan.
C11_LoginSetsSessionOnSuccess ==
    [][\A c \in Conns :
         HandlerStep(c, "login_with_token") =>
            LET tok == raw'[c].access_token
                rtok == raw'[c].refresh_token
                verifiable == tok \notin {Absent, ""} /\ UserOfToken(tok) \notin {Absent, ""}
            IN
            IF pc[c] = "login_set"
            THEN /\ verifiable
                 /\ pend[c].plan \in Plans
                 /\ session' = [email |-> UserOfToken(tok), plan |-> pend[c].plan,
                                access_token |-> tok,
                                refresh_token |-> IF rtok = Absent THEN "" ELSE rtok]
                 /\ reply'[c] = [EmptyReply EXCEPT !.type = "auth_status",
                                                  !.logged_in = "true",
                                                  !.email = session'.email,
                                                  !.plan = session'.plan]
            ELSE /\ session' = session
                 /\ tok \in {Absent, ""} => pc'[c] = "send"
                 /\ ~verifiable => pc'[c] \in {"login_http", "send"}
                 /\ pc'[c] = "send" =>
                        /\ reply'[c].type = "auth_status"
                        /\ reply'[c].logged_in = "false"
                        /\ reply'[c].error \notin {Absent, ""}
                        /\ reply'[c].email = Absent
                        /\ reply'[c].plan = Absent
      ]_vars

\* C11 witness: a token login without refresh token has succeeded and
\* replaced a different session; its reply is about to be sent.
C11_Witness ==
    \E c \in Conns :
        /\ pc[c] = "send"
        /\ raw[c].type = "login_with_token"
        /\ raw[c].refresh_token = Absent
        /\ reply[c].logged_in = "true"
        /\ session = pend[c]
        /\ session.refresh_token = ""
        /\ session.plan = "premium"

\* C12: when Api.logout completes the session is None, and from then on it
\* stays None until a login (Api.login or login_with_token) completes; an
\* analyze message read while the session is None is answered auth_required
\* and a get_auth message logged_in false, on every connection.
C12_LogoutReturnsToAnonymous ==
    [][/\ (guiLogout = "unlinked" /\ guiLogout' = "idle") => session' = NoSession
       /\ (session = NoSession /\ session' # NoSession) =>
            \/ guiLogin.pc = "saved" /\ guiLogin'.pc = "idle"
            \/ \E c \in Conns : pc[c] = "login_set" /\ pc'[c] = "send"
       /\ \A c \in Conns :
            (session = NoSession /\ pc[c] = "recv") =>
                /\ HandlerStep(c, "analyze") =>
                        pc'[c] = "send" /\ reply'[c].type = "auth_required"
                /\ HandlerStep(c, "get_auth") =>
                        pc'[c] = "send" /\ reply'[c].type = "auth_status"
                                       /\ reply'[c].logged_in = "false"
      ]_vars

\* C12 witness: connection d still holds an analysis computed under the
\* restored premium session; since then Api.logout has completed (session and
\* session file are gone, no login is in progress) and an analyze with a
\* valid fen on connection c was denied.
C12_Witness ==
    \E c, d \in Conns :
        /\ c # d
        /\ pc[d] = "send"
        /\ reply[d].type = "analysis_result"
        /\ gate[d].access_token = "tokA"
        /\ session = NoSession
        /\ file = NoSession
        /\ Quiescent
        /\ AtAnalyze(c)
        /\ gate[c] = NoSession
        /\ raw[c].fen = FenOk
        /\ reply[c].type = "auth_required"

\* C13: a get_auth message is answered with auth_status; logged_in is true
\* exactly when a session is held when the message is processed, and then
\* the reply carries that session's email and plan; otherwise it carries
\* neither.
C13_GetAuthReportsSession ==
    [][\A c \in Conns :
         HandlerStep(c, "get_auth") =>
            /\ pc[c] = "recv"
            /\ pc'[c] = "send"
            /\ reply'[c] = IF session # NoSession
                           THEN [EmptyReply EXCEPT !.type = "auth_status",
                                                   !.logged_in = "true",
                                                   !.email = session.email,
                                                   !.plan = session.plan]
                           ELSE [EmptyReply EXCEPT !.type = "auth_status",
                                                   !.logged_in = "false"]
      ]_vars

\* C13 witness: get_auth was answered while a free session was held.
C13_Witness ==
    \E c \in Conns :
        /\ pc[c] = "send"
        /\ raw[c] = GetAuthFrame
        /\ reply[c].logged_in = "true"
        /\ reply[c].plan = "free"
        /\ session.plan = "free"

\* C14: a ping message is answered at once, whatever session is held, with
\* the reply {"type": "pong"} and no other field, and predict is not invoked.
C14_PingPongs ==
    \A c \in Conns :
        (raw[c].kind = "object" /\ raw[c].type = "ping") =>
            /\ pc[c] = "send"
            /\ reply[c] = [EmptyReply EXCEPT !.type = "pong"]
            /\ exc[c] = Absent
            /\ ~invoked[c]

\* C14 witness: a ping was answered while a premium session is held and
\* another connection is open.
C14_Witness ==
    \E c, d \in Conns :
        /\ c # d
        /\ raw[c] = PingFrame
        /\ reply[c].type = "pong"
        /\ session.plan = "premium"
        /\ d \in clients

\* C15: a JSON object whose type is none of ping, get_auth,
\* login_with_token, analyze (or that has no type) is answered at once,
\* whatever session is held, with an error reply "Unknown message type: ...",
\* and predict is not invoked.
C15_UnknownTypeIsAnError ==
    \A c \in Conns :
        (raw[c].kind = "object"
            /\ raw[c].type \notin {"ping", "get_auth", "login_with_token", "analyze"}) =>
            /\ pc[c] = "send"
            /\ reply[c].type = "error"
            /\ reply[c].message = (IF raw[c].type = Absent
                                   THEN "Unknown message type: None"
                                   ELSE "Unknown message type: bogus")
            /\ exc[c] = Absent
            /\ ~invoked[c]

\* C15 witness: an object without a type field was answered while a premium
\* session is held.
C15_Witness ==
    \E c \in Conns :
        /\ raw[c] = NoTypeFrame
        /\ reply[c].type = "error"
        /\ session.plan = "premium"

\* The connections whose handler is running, given the handlers' positions.
OpenConns(p) == {c \in Conns : p[c] \notin {"init", "ended"}}

\* C16: _clients is the set of the connections whose handler is running, so
\* client_count is their number; when a handler ends, for whatever reason,
\* exactly its connection leaves _clients, no other handler moves and the
\* shared session stays as it is.
C16_ClientsAreRunningHandlers ==
    [][/\ clients = OpenConns(pc)
       /\ clients' = OpenConns(pc')
       /\ Cardinality(clients') = Cardinality(OpenConns(pc'))
       /\ \A c \in Conns :
            (c \in OpenConns(pc) /\ pc'[c] = "ended") =>
                /\ clients' = clients \ {c}
                /\ session' = session
                /\ \A d \in Conns \ {c} : pc'[d] = pc[d]
      ]_vars

\* C16 witness: one handler has ended by an exception that escaped it, the
\* other connection is still open and is the only member of _clients, while
\* a session is held.
C16_Witness ==
    \E c, d \in Conns :
        /\ c # d
        /\ pc[c] = "ended"
        /\ endReason[c] = "crash"
        /\ pc[d] = "recv"
        /\ clients = {d}
        /\ session # NoSession

\* C17: the server exists, listens, is marked running or the engine is
\* reported ready only after MaiaEngine was constructed, which needs the
\* model file and the vocabulary file to load; when the construction has
\* failed (the process exited, or _load_and_start returned) there is no
\* server and no event loop, so toggle_server returns without starting one.
C17_ServesOnlyWithLoadedEngine ==
    /\ (listening \/ app.server \/ app.is_running \/ app.engine_ready) =>
            /\ engine.constructed
            /\ engine.all_moves # "unset"
            /\ env.model = "ok"
            /\ env.vocab \notin {"missing", "unparseable"}
    /\ boot \in {"exited", "load_failed"} =>
            /\ ~engine.constructed
            /\ ~listening
            /\ ~app.server
            /\ ~app.loop
            /\ ~app.is_running
            /\ ~app.engine_ready

\* C17 witness: an app made with a model path has loaded model and
\* vocabulary and serves.
C17_Witness ==
    /\ entry = "lazy"
    /\ boot = "serving"
    /\ listening
    /\ app.is_running
    /\ app.engine = "engine"
    /\ engine.all_moves = "full"

\* C18 (as claimed): with a vocabulary file that cannot be read or that
\* holds the empty list no engine is constructed, the server never listens
\* and predict never runs.
C18_UnusableVocabularyStopsStartup ==
    env.vocab \in {"missing", "unparseable", "empty"} =>
        /\ ~listening
        /\ eloCall = NoEloCall
        /\ mvCall = NoMvCall

\* C19: the category of a rating is in 0..10 and is the number of the
\* boundaries 1100, 1200, ..., 2000 that the rating has reached (so 1099
\* gives 0, 1100 gives 1, 1999 gives 9, 2000 gives 10), and of two ratings
\* the larger never gets the smaller category.
C19_EloCategoryByBoundaries ==
    eloCall # NoEloCall =>
        LET Reached(e) ==
                Cardinality({b \in {1100, 1200, 1300, 1400, 1500, 1600, 1700, 1800,
                                    1900, 2000} : b <= e})
        IN  /\ eloCall.self_cat \in 0..10
            /\ eloCall.oppo_cat \in 0..10
            /\ eloCall.self_cat = Reached(eloCall.self)
            /\ eloCall.oppo_cat = Reached(eloCall.oppo)
            /\ eloCall.self <= eloCall.oppo => eloCall.self_cat <= eloCall.oppo_cat
            /\ eloCall.oppo <= eloCall.self => eloCall.oppo_cat <= eloCall.self_cat
            /\ eloCall.self = 1099 => eloCall.self_cat = 0
            /\ eloCall.self = 1100 => eloCall.self_cat = 1
            /\ eloCall.self = 1999 => eloCall.self_cat = 9
            /\ eloCall.self = 2000 => eloCall.self_cat = 10

\* C19 witness: predict converted the ratings 1999 and 2000.
C19_Witness ==
    /\ eloCall.self = 1999
    /\ eloCall.oppo = 2000
    /\ eloCall.self_cat = 9
    /\ eloCall.oppo_cat = 10

\* C20: mirroring a move of two squares and an optional promotion piece
\* twice gives the move back; one mirroring keeps both files and the
\* promotion suffix and turns rank r into 9 - r in both squares.
C20_MirrorMoveIsAnInvolution ==
    mvCall # NoMvCall =>
        LET m == mvCall.move
            r == mvCall.mirrored
        IN  /\ mvCall.restored = m
            /\ Len(r) = Len(m)
            /\ r[1] = m[1]
            /\ r[3] = m[3]
            /\ IntOfChar(r[2]) = 9 - IntOfChar(m[2])
            /\ IntOfChar(r[4]) = 9 - IntOfChar(m[4])
            /\ SubSeq(r, 5, Len(r)) = SubSeq(m, 5, Len(m))

\* C20 witness: the promotion e7e8q was mirrored to e2e1q and back.
C20_Witness ==
    /\ mvCall.move = <<"e", "7", "e", "8", "q">>
    /\ mvCall.mirrored = <<"e", "2", "e", "1", "q">>
    /\ mvCall.restored = mvCall.move

\* ------------------------------------------------------ claims: decoding
\* predict was called and returned a result
Decoded == predCall # NoPredCall /\ ~predCall.res.raised

\* the sum of the reported probabilities of a list of entries, in 10^-4
RECURSIVE SumProb(_)
SumProb(s) == IF s = <<>> THEN 0 ELSE Head(s).probability + SumProb(Tail(s))

C22_TruncationKeepsThePrefix ==
    (Decoded /\ predCall.top_n # <<>>) =>
        LET n == predCall.top_n[1]
            all == predCall.res.move_probs
            got == predCall.res.moves
        IN n > 0 =>
             /\ Len(got) = (IF n < Len(all) THEN n ELSE Len(all))
             /\ \A i \in 1..Len(got) : got[i] = all[i]

\* top_n = 2 cuts a ranked list of three moves whose last entry is the
\* least probable
C22_Witness ==
    /\ Decoded
    /\ predCall.top_n = <<2>>
    /\ Len(predCall.res.move_probs) = 3
    /\ Len(predCall.res.moves) = 2
    /\ predCall.res.move_probs[3].probability < predCall.res.moves[2].probability

\* C23 as stated: an analyze whose top_n is absent, 0 or negative returns the
\* moves that the same request returns with top_n = 5.
C23_NonPositiveTopNMeansFive ==
    (Decoded /\ (predCall.top_n = <<>> \/ predCall.top_n[1] <= 0)) =>
        LET all == predCall.res.move_probs
        IN predCall.res.moves =
             SubSeq(all, 1, IF DefaultTopN < Len(all) THEN DefaultTopN ELSE Len(all))

\* the position of a move in the enumeration of the true position
EnumPos(pos, mv) ==
    CHOOSE i \in 1..Len(LegalMovesUci(pos)) : LegalMovesUci(pos)[i] = mv

\* C24: the returned moves are in order of non-increasing reported
\* probability, and two moves of equal reported probability are in the order
\* in which the enumeration of the true position lists them.
C24_RankedWithTiesInEnumerationOrder ==
    Decoded =>
        LET got == predCall.res.moves
        IN \A i, j \in 1..Len(got) :
             i < j =>
               /\ got[i].probability >= got[j].probability
               /\ got[i].probability = got[j].probability =>
                    EnumPos(predCall.pos, got[i].move) < EnumPos(predCall.pos, got[j].move)

\* the second player is to move and the result holds a more probable move
\* that the enumeration lists last, then two moves of one probability
C24_Witness ==
    /\ Decoded
    /\ predCall.pos.turn = "black"
    /\ Len(predCall.res.moves) = 3
    /\ predCall.res.moves[1].probability > predCall.res.moves[2].probability
    /\ predCall.res.moves[2].probability = predCall.res.moves[3].probability
    /\ EnumPos(predCall.pos, predCall.res.moves[1].move) = 3

\* C25: every move of the result is a legal move of the true position in its
\* own orientation (for the second player the un-mirrored form, never the
\* vocabulary's), and no move is in the result twice.
C25_MovesAreLegalAndDistinct ==
    Decoded =>
        LET got == predCall.res.moves
        IN /\ \A i \in 1..Len(got) : got[i].move \in predCall.pos.legal
           /\ \A i, j \in 1..Len(got) : got[i].move = got[j].move => i = j

\* the second player is to move and the result holds three of its moves,
\* none of which is spelled as the vocabulary spells it
C25_Witness ==
    /\ Decoded
    /\ predCall.pos.turn = "black"
    /\ Len(predCall.res.moves) = 3
    /\ \A i \in 1..3 : predCall.res.moves[i].move \notin AllMoves(engine.all_moves)

\* clamp(v/2 + 0.5, 0, 1) for the call's raw value v when the first player is
\* the true mover, 1 minus it when the second player is; in units of 10^-5
ClampedValue ==
    LET c == Clip(predCall.value + 5 * Scale4, 0, 10 * Scale4)
    IN IF predCall.pos.turn = "black" THEN 10 * Scale4 - c ELSE c

\* C26 as stated: the reported win probability is in [0,1] and equals
\* clamp(v/2 + 0.5, 0, 1) for the first player, 1 minus it for the second.
C26_WinProbIsTheClampedValue ==
    Decoded =>
        /\ predCall.res.win_prob \in 0..Scale4
        /\ 10 * predCall.res.win_prob = ClampedValue

\* C26 amended: the reported win probability is in [0,1] and is that
\* quantity rounded to four decimals: a multiple of 10^-4 within 0.00005 of it.
C26_WinProbIsTheRoundedClampedValue ==
    Decoded =>
        /\ predCall.res.win_prob \in 0..Scale4
        /\ 10 * predCall.res.win_prob - ClampedValue \in -5..5

\* the second player is to move, v = 0.00022: clamp gives 0.50011, 1 minus
\* it is 0.49989 and 0.4999 is reported
C26_Witness ==
    /\ Decoded
    /\ predCall.pos.turn = "black"
    /\ predCall.value = 11
    /\ predCall.res.win_prob = 4999

\* the entries of a list with every move mirrored, as a set
MirroredEntries(s) ==
    {[move |-> MirrorMove(s[i].move), probability |-> s[i].probability] :
        i \in 1..Len(s)}

\* predict ran for a first-player-to-move position P; predCall.twin is what
\* it returns for the mirrored, colour-swapped P' with the same ratings
SymmetricPair == Decoded /\ predCall.pos.turn = "white"

\* C27 as stated: for P and P' predict feeds the model the same tensor, the
\* two win probabilities sum to 1.0 within tolerance (10^-4, the unit of the
\* reported values), and the two returned move lists correspond move for move
\* under _mirror_move, with equal probabilities.
C27_OrientationSymmetry ==
    SymmetricPair =>
        LET a == predCall.res
            b == predCall.twin
        IN /\ predCall.twin_tensor = predCall.tensor
           /\ a.win_prob + b.win_prob - Scale4 \in -1..1
           /\ Len(b.moves) = Len(a.moves)
           /\ \A i \in 1..Len(a.moves) :
                /\ b.moves[i].move = MirrorMove(a.moves[i].move)
                /\ b.moves[i].probability = a.moves[i].probability

\* C27 amended: same tensor; the win probabilities sum to 1.0 within 10^-4;
\* the full ranked lists hold the same moves under _mirror_move with the same
\* probabilities; the returned lists have the same length and the same
\* probabilities position by position, and they correspond move for move
\* when no two legal moves have the same reported probability.
C27_OrientationSymmetryUpToTies ==
    SymmetricPair =>
        LET a == predCall.res
            b == predCall.twin
            distinct == \A i, j \in 1..Len(a.move_probs) :
                          a.move_probs[i].probability = a.move_probs[j].probability
                            => i = j
        IN /\ predCall.twin_tensor = predCall.tensor
           /\ a.win_prob + b.win_prob - Scale4 \in -1..1
           /\ Len(b.move_probs) = Len(a.move_probs)
           /\ MirroredEntries(a.move_probs) = {b.move_probs[i] : i \in 1..Len(b.move_probs)}
           /\ Len(b.moves) = Len(a.moves)
           /\ \A i \in 1..Len(a.moves) :
                /\ b.moves[i].probability = a.moves[i].probability
                /\ distinct => b.moves[i].move = MirrorMove(a.moves[i].move)

\* P has the bishop's move c4d5 and the knight's move g1f3 with the same
\* probability and top_n = 1: P returns c4d5 and P' returns g8f6, the mirror
\* image of g1f3
C27_Witness ==
    /\ SymmetricPair
    /\ predCall.top_n = <<1>>
    /\ Len(predCall.res.move_probs) = 2
    /\ predCall.res.moves[1] = [move |-> <<"c", "4", "d", "5">>, probability |-> Scale4 \div 2]
    /\ predCall.twin.moves[1] = [move |-> <<"g", "8", "f", "6">>, probability |-> Scale4 \div 2]

\* ------------------------------------------------- claims: load_session
\* C28: fetch_plan never raises; when the plan lookup fails (transport error,
\* non-200 status, empty result, unparseable body) it returns "free", and the
\* session built after the failed lookup is AuthenticatedFree (the gate
\* answers upgrade_required), never AuthenticatedPaid.
C28_FailedLookupGivesFree ==
    /\ auth.plan # Raise
    /\ (auth.lookup \in FailedLookups /\ auth.plan # Absent) =>
          /\ auth.plan = "free"
          /\ auth.result # NoSession
          /\ Gate(auth.result) = "upgrade_required"
    /\ (auth.relookup \in FailedLookups /\ auth.result # NoSession
          /\ auth.result.access_token = "tokNew") =>
          /\ auth.plan = "free"
          /\ Gate(auth.result) = "upgrade_required"

\* the file held a premium session, the lookup raised a transport error and
\* the application runs with a free session
C28_Witness ==
    /\ auth.pc = "running"
    /\ auth.lookup = "transport_error"
    /\ auth.session = MkSession("a@x", "tokOld", "rtOld", "free")
    /\ Gate(auth.session) = "upgrade_required"

\* C29: load_session never raises; when the session file is absent,
\* unreadable, not valid JSON, or lacks an access token or email it returns
\* no session, the constructor goes on and the process starts Anonymous.
C29_LoadSessionNeverRaises ==
    /\ ~auth.raised
    /\ auth.pc # "crashed"
    /\ (/\ auth.pc \in {"done", "running"}
        /\ \/ auth.file.kind \in {"absent", "unreadable", "notjson"}
           \/ Falsy(auth.file.data.access_token)
           \/ Falsy(auth.file.data.email))
       => /\ auth.result = NoSession
          /\ auth.session = NoSession
          /\ Gate(auth.session) = "auth_required"

\* the file is not JSON and the application runs without a session
C29_Witness ==
    /\ auth.pc = "running"
    /\ auth.file.kind = "notjson"
    /\ auth.session = NoSession

\* --------------------------------------------------- claims: dispatcher
\* C30: of all the steps of a connection's handler only the last step of a
\* successful login_with_token writes the session: the steps that process
\* ping, get_auth, analyze (granted, denied or failing), an unknown type, a
\* malformed frame or a failed login_with_token, and the steps that open,
\* read, send and close, leave the session as it was.
C30_OnlySuccessfulLoginWritesSession ==
    [][\A c \in Conns :
         (pc'[c] # pc[c] /\ session' # session) =>
            /\ pc[c] = "login_set"
            /\ raw[c].type = "login_with_token"
            /\ session' = pend[c]
            /\ reply'[c].type = "auth_status"
            /\ reply'[c].logged_in = "true"]_vars

\* one connection holds the result of a granted analyze, the other the reply
\* of a failed login_with_token, and the session is the restored one
C30_Witness ==
    \E c, d \in Conns :
        /\ pc[c] = "send" /\ reply[c].type = "analysis_result"
        /\ pc[d] = "send" /\ raw[d].type = "login_with_token"
        /\ reply[d].logged_in = "false"
        /\ session = MkSession("a@x", "tokA", "rt", "premium")
        /\ file = session
        /\ Quiescent

\* C31 as stated: load_session returns a session only when the stored access
\* token was verified by the plan lookup (the old token is kept) or was
\* refreshed (a new token); when the lookup gets no answer or a status other
\* than 200 and the refresh fails too, the stored record is deleted and no
\* session is returned.
C31_RestoresOnlyVerifiedOrRefreshed ==
    auth.pc \in {"done", "running"} =>
        LET unverified == auth.lookup \in {"transport_error", "non200"}
        IN /\ auth.result # NoSession =>
                \/ auth.result.access_token = "tokOld" /\ ~unverified
                \/ auth.result.access_token = "tokNew" /\ auth.refresh = "ok"
           /\ (auth.plan # Absent /\ unverified /\ auth.refresh # "ok") =>
                /\ auth.result = NoSession
                /\ auth.file.kind = "absent"

\* ------------------------------------------------ claims: the encoding
\* C32: whichever side is to move in the input position, the board that is
\* encoded has the first player to move and plane 12 of the tensor handed to
\* the inference call is 1.0 in every cell, because a second-player-to-move
\* position is mirrored before it is encoded.
C32_MoverPlaneIsAlwaysSet ==
    predCall # NoPredCall =>
        /\ predCall.tensor.turn = "white"
        /\ \A cell \in DOMAIN predCall.mover_plane : predCall.mover_plane[cell] = 1
        /\ predCall.pos.turn = "black" => predCall.tensor = MirrorBoard(predCall.pos)

\* the second player is to move in a position with four legal moves, and the
\* plane is set in the corner cells
C32_Witness ==
    /\ predCall # NoPredCall
    /\ predCall.pos.turn = "black"
    /\ Cardinality(predCall.pos.legal) = 4
    /\ predCall.mover_plane[<<0, 0>>] = 1
    /\ predCall.mover_plane[<<7, 7>>] = 1

\* C33 as stated: when a legal move of the position is, in the canonical
\* orientation, not in the vocabulary, predict raises no error, the move is
\* not in the result, every other legal move is in the ranked list (and the
\* returned list is cut from it), and the probabilities of the listed moves
\* sum to 1.0 within 0.00005 per move.
C33_OutOfVocabularyMoveIsSkipped ==
    LET vocab == AllMoves(engine.all_moves)
        all == predCall.res.move_probs
        got == predCall.res.moves
        Canonical(mv) == IF predCall.pos.turn = "black" THEN MirrorMove(mv) ELSE mv
        kept == {mv \in predCall.pos.legal : Canonical(mv) \in vocab}
        diff == SumProb(all) - Scale4
    IN (predCall # NoPredCall /\ kept # predCall.pos.legal) =>
         /\ ~predCall.res.raised
         /\ {all[i].move : i \in 1..Len(all)} = kept
         /\ Len(all) = Cardinality(kept)
         /\ \A i \in 1..Len(got) : \E j \in 1..Len(all) : got[i] = all[j]
         /\ kept # {} => 2 * (IF diff < 0 THEN 0 - diff ELSE diff) <= Len(all)

====
